---- MODULE Spec2Model ----
(***************************************************************************)
(* Model of src/server/websocket.py: the websocket producer                *)
(* (handle_connection), the frame gate (is_speech), the ingestion queue    *)
(* (audio_queue) and the phrase assembler (transcribe_loop), all running   *)
(* on one asyncio event loop.                                              *)
(*                                                                         *)
(* Time is in milliseconds since start_time.  A coroutine runs without     *)
(* interruption between two suspension points, so one handled message and  *)
(* one stretch of transcribe_loop between suspensions are single steps.    *)
(* model.transcribe is an ordinary (blocking) call made inside the         *)
(* coroutine: while it runs the event loop runs nothing else, but the      *)
(* clock moves and the client keeps sending.  The tick is therefore cut at *)
(* that call: TickBegin (lines 126-157, up to the call) and                *)
(* TranscribeReturn / TranscribeRaise (the call's two outcomes and lines   *)
(* 159-178).                                                               *)
(***************************************************************************)
EXTENDS Integers, Sequences, FiniteSets, TLC

VARIABLES
    clock,            \* datetime.utcnow() - start_time, in ms
    wire,             \* messages sent by the client, not yet read by handle_connection
    nSent,            \* number of messages the client has sent
    audio_queue,      \* asyncio.Queue of {"time", "audio"} records
    enqLog,           \* history: every record put on audio_queue, in order
    phrase_time,      \* global phrase_time (None until the first speech frame)
    pc,               \* position of the transcribe_loop task
    sleepLeft,        \* time left of the current asyncio.sleep(0.1)
    batch_buffer,     \* bytearray of the current phrase, as its sequence of payloads
    transcription,    \* list of transcript lines
    phrase_timestamp, \* local phrase_timestamp
    phrase_complete,  \* local phrase_complete ("unbound" before its first assignment)
    drained,          \* history: number of queue records taken by audio_queue.get()
    cleared,          \* history: value of drained at the last batch_buffer.clear()
    finalized,        \* history: per finalizing tick, the line index, its text and the payload ids
    lastTick,         \* history: what the last step of transcribe_loop did
    lastGate,         \* history: the last message handle_connection read, and what became of it
    probe             \* one call of a pure function, its argument and result (idle in the pipeline)

vars == <<clock, wire, nSent, audio_queue, enqLog, phrase_time, pc,
          sleepLeft, batch_buffer, transcription, phrase_timestamp, phrase_complete,
          drained, cleared, finalized, lastTick, lastGate, probe>>

\* the state of the pipeline
pipeline == <<clock, wire, nSent, audio_queue, enqLog, phrase_time, pc,
              sleepLeft, batch_buffer, transcription, phrase_timestamp, phrase_complete,
              drained, cleared, finalized, lastTick, lastGate>>

----------------------------------------------------------------------------
(* Program constants *)

WHISPER_SAMPLE_RATE == 16000

\* PHRASE_TIMEOUT = 0.3 (seconds), in ms
PHRASE_TIMEOUT == 300

\* asyncio.sleep(0.1), in ms
SLEEP_MS == 100

None == -1

----------------------------------------------------------------------------
(* Bounds *)

\* the clock stops here
MaxClock == 750

\* granularity of the clock
ClockStep == 50

\* number of messages the client sends
MaxMsgs == 2

\* what the external classifier (vad.is_speech) does with a payload
VadOutcomes == {"speech", "silence", "raise"}

\* the messages the client can send: binary frames of 320 bytes (20 ms by the
\* gate's arithmetic) and 640 bytes (40 ms), and one text message
Payloads ==
    {[bytes |-> TRUE, len |-> 320, vad |-> v] : v \in VadOutcomes}
        \cup {[bytes |-> TRUE, len |-> 640, vad |-> "speech"],
              [bytes |-> FALSE, len |-> 5, vad |-> "silence"]}

\* results the external engine (model.transcribe) can return: its "segments",
\* with start and end in ms relative to the window
SegA == [start |-> 0, end |-> 100, text |-> " a"]
SegB == [start |-> 100, end |-> 250, text |-> " b"]
EngineResults == {<<>>, <<SegA, SegB>>}

----------------------------------------------------------------------------
(* Frame gate: is_speech, lines 34-45 *)

\* line 38-39: len(audio_chunk) / (sample_rate / 1000) is one of 10, 20, 30
ValidDuration(len, sample_rate) ==
    \E d \in {10, 20, 30} : len * 1000 = d * sample_rate

\* the body of the try block: what it returns, or that it raised
is_speech_try(chunk, sample_rate) ==
    IF sample_rate = 0
    THEN [raised |-> TRUE, value |-> FALSE]           \* ZeroDivisionError, line 38
    ELSE IF ~ValidDuration(chunk.len, sample_rate)
    THEN [raised |-> TRUE, value |-> FALSE]           \* ValueError, line 40
    ELSE IF chunk.vad = "raise"
    THEN [raised |-> TRUE, value |-> FALSE]           \* vad.is_speech raises, line 42
    ELSE [raised |-> FALSE, value |-> (chunk.vad = "speech")]

\* is_speech without the duration check of lines 38-40
is_speech_NoDurationCheck(chunk, sample_rate) ==
    chunk.vad = "speech"

\* lines 36-45: except Exception returns False
is_speech(chunk, sample_rate) ==
    LET r == is_speech_try(chunk, sample_rate)
    IN  IF r.raised THEN FALSE ELSE r.value

\* history only: why handle_connection kept or dropped a message
Verdict(message) ==
    IF ~message.bytes THEN "text"
    ELSE IF is_speech(message, WHISPER_SAMPLE_RATE) THEN "queued"
    ELSE IF ~ValidDuration(message.len, WHISPER_SAMPLE_RATE) THEN "bad duration"
    ELSE IF message.vad = "raise" THEN "classifier raised"
    ELSE "not speech"

----------------------------------------------------------------------------
(* Timestamps and segments: format_time, process_time_segments *)

Pad2(n) == IF n < 10 THEN "0" \o ToString(n) ELSE ToString(n)

Pad3(n) == IF n < 10 THEN "00" \o ToString(n)
           ELSE IF n < 100 THEN "0" \o ToString(n) ELSE ToString(n)

\* format_time with the hours wrapped at 24, as a clock time would be
format_time_Wrap24(ms) ==
    LET hours   == (ms \div 3600000) % 24
        minutes == (ms % 3600000) \div 60000
        seconds == ms % 60000
    IN  Pad2(hours) \o ":" \o Pad2(minutes) \o ":"
            \o Pad2(seconds \div 1000) \o "." \o Pad3(seconds % 1000)

\* lines 75-85, for a duration of ms milliseconds
format_time(ms) ==
    LET hours   == ms \div 3600000
        minutes == (ms % 3600000) \div 60000
        seconds == ms % 60000
    IN  Pad2(hours) \o ":" \o Pad2(minutes) \o ":"
            \o Pad2(seconds \div 1000) \o "." \o Pad3(seconds % 1000)

\* the entry stamped with the segment's own times, the phrase start left out
SegmentObj_NoPhraseStart(phrase_ts, segment) ==
    [text  |-> segment.text,
     start |-> format_time(segment.start),
     end   |-> format_time(segment.end)]

\* lines 102-113: one segment's entry of transcript_obj
SegmentObj(phrase_ts, segment) ==
    [text  |-> segment.text,
     start |-> format_time(phrase_ts + segment.start),
     end   |-> format_time(phrase_ts + segment.end)]

\* line 108: one segment's entry of transcript_lines
SegmentLine(phrase_ts, segment) ==
    LET o == SegmentObj(phrase_ts, segment)
    IN  "[" \o o.start \o " - " \o o.end \o "] " \o o.text

\* lines 87-115: (transcript_lines, transcript_obj)
process_time_segments(phrase_ts, segments) ==
    [lines |-> [i \in 1..Len(segments) |-> SegmentLine(phrase_ts, segments[i])],
     objs  |-> [i \in 1..Len(segments) |-> SegmentObj(phrase_ts, segments[i])]]

\* "".join(strs)
RECURSIVE Join(_)
Join(strs) == IF strs = <<>> THEN "" ELSE Head(strs) \o Join(Tail(strs))

\* lines 160, 170, 173: the text a tick writes to the transcript
PhraseText(phrase_ts, segments) ==
    Join(process_time_segments(phrase_ts, segments).lines)

----------------------------------------------------------------------------
(* Pieces of transcribe_loop *)

\* the drain loop taking the newest record first
RECURSIVE DrainQueue_NewestFirst(_, _, _, _)
DrainQueue_NewestFirst(queue, complete, ts, buf) ==
    IF queue = <<>>
    THEN [phrase_timestamp |-> ts, batch_buffer |-> buf]
    ELSE LET data == queue[Len(queue)]
         IN  DrainQueue_NewestFirst(SubSeq(queue, 1, Len(queue) - 1), complete,
                                    IF complete = "true" THEN data.time ELSE ts,
                                    Append(buf, data.audio))

\* lines 128-137: the drain loop, one queue record per iteration.  The flag
\* read at line 133 is the local phrase_complete as the previous iteration
\* of the outer loop left it.
RECURSIVE DrainQueue(_, _, _, _)
DrainQueue(queue, complete, ts, buf) ==
    IF queue = <<>>
    THEN [phrase_timestamp |-> ts, batch_buffer |-> buf]
    ELSE LET data == Head(queue)
         IN  DrainQueue(Tail(queue), complete,
                        IF complete = "true" THEN data.time ELSE ts,
                        Append(buf, data.audio))

\* line 164: phrase_time and now - phrase_time > timedelta(seconds=PHRASE_TIMEOUT)
\* (None and timedelta(0) are both falsy)
TimedOut_NonStrict(now, pt) ==
    pt # None /\ pt # 0 /\ now - pt >= PHRASE_TIMEOUT

TimedOut(now, pt) ==
    pt # None /\ pt # 0 /\ now - pt > PHRASE_TIMEOUT

\* the merge appending a line on every tick
Merge_AlwaysAppend(lines, text, complete) ==
    Append(lines, text)

\* lines 168-173: the transcription list after the tick
Merge(lines, text, complete) ==
    IF complete
    THEN Append(lines, text)
    ELSE [lines EXCEPT ![Len(lines)] = text]

\* the tick never clearing the phrase buffer
BufferAfter_KeepsBuffer(buf, complete) == buf

\* lines 168-171: the phrase buffer after the tick
BufferAfter(buf, complete) == IF complete THEN <<>> ELSE buf

\* the tick recognizing whatever the buffer holds
HasAudio_Always(buf) == TRUE

\* line 141: if (len(batch_buffer) > 0)
HasAudio(buf) == Len(buf) > 0

\* handle_connection also running before the transcribe_loop task has started
LoopIdle_AlsoBeforeFirstRun == pc \in {"ready", "sleep", "crashed"}

\* asyncio runs one coroutine at a time: handle_connection runs only while
\* transcribe_loop is suspended in asyncio.sleep (or has ended)
LoopIdle == pc \in {"sleep", "crashed"}

Ids(buf) == {buf[i].id : i \in 1..Len(buf)}

----------------------------------------------------------------------------
(* State after module import and main's create_task / websockets.serve:      *)
(* the transcribe_loop task exists and has not run yet.                     *)

PipelineInit ==
    /\ clock = ClockStep
    /\ wire = <<>>
    /\ nSent = 0
    /\ audio_queue = <<>>
    /\ enqLog = <<>>
    /\ phrase_time = None
    /\ pc = "ready"
    /\ sleepLeft = 0
    /\ batch_buffer = <<>>
    /\ transcription = <<"">>
    /\ phrase_timestamp = 0
    /\ phrase_complete = "unbound"
    /\ drained = 0
    /\ cleared = 0
    /\ finalized = <<>>
    /\ lastTick = "none"
    /\ lastGate = "none"

\* no pure-function call under way
NoProbe == [fn |-> "none"]

Init == PipelineInit /\ probe = NoProbe

(* The client sends a message. *)
Send(p) ==
    /\ nSent < MaxMsgs
    /\ LET m == [id |-> nSent + 1, sent |-> clock, bytes |-> p.bytes,
                 len |-> p.len, vad |-> p.vad]
       IN  /\ wire' = Append(wire, m)
           /\ nSent' = nSent + 1
    /\ UNCHANGED <<clock, audio_queue, enqLog, phrase_time, pc, sleepLeft,
                   batch_buffer, transcription, phrase_timestamp, phrase_complete,
                   drained, cleared, finalized, lastTick, lastGate, probe>>

(* handle_connection, lines 51-60: one message of the async for loop. *)
HandleMessage ==
    /\ LoopIdle
    /\ wire # <<>>
    /\ LET message == Head(wire)
       IN  /\ wire' = Tail(wire)
           /\ lastGate' = Verdict(message)
           /\ IF message.bytes /\ is_speech(message, WHISPER_SAMPLE_RATE)
              THEN LET data == [time  |-> clock,
                                audio |-> [id |-> message.id, len |-> message.len,
                                          sent |-> message.sent]]
                   IN  /\ phrase_time' = clock
                       /\ audio_queue' = Append(audio_queue, data)
                       /\ enqLog' = Append(enqLog, data)
              ELSE UNCHANGED <<phrase_time, audio_queue, enqLog>>
    /\ UNCHANGED <<clock, nSent, pc, sleepLeft, batch_buffer, transcription,
                   phrase_timestamp, phrase_complete, drained, cleared, finalized,
                   lastTick, probe>>

(* transcribe_loop, lines 126-157: wake up, drain the queue, reset the flag *)
(* and, with a non-empty buffer, enter model.transcribe; with an empty one  *)
(* go back to sleep (line 178).  Reading the unbound flag at line 133 ends  *)
(* the task with UnboundLocalError, after line 130 took the record.         *)
TickBegin ==
    /\ pc = "ready" \/ (pc = "sleep" /\ sleepLeft = 0)
    /\ IF audio_queue # <<>> /\ phrase_complete = "unbound"
       THEN /\ audio_queue' = Tail(audio_queue)
            /\ drained' = drained + 1
            /\ pc' = "crashed"
            /\ lastTick' = "unbound"
            /\ UNCHANGED <<batch_buffer, phrase_timestamp, phrase_complete, sleepLeft>>
       ELSE LET d == DrainQueue(audio_queue, phrase_complete, phrase_timestamp,
                                batch_buffer)
            IN  /\ audio_queue' = <<>>
                /\ drained' = drained + Len(audio_queue)
                /\ batch_buffer' = d.batch_buffer
                /\ phrase_timestamp' = d.phrase_timestamp
                /\ phrase_complete' = "false"
                /\ IF HasAudio(d.batch_buffer)
                   THEN /\ pc' = "transcribing"
                        /\ lastTick' = "call"
                        /\ UNCHANGED sleepLeft
                   ELSE /\ pc' = "sleep"
                        /\ sleepLeft' = SLEEP_MS
                        /\ lastTick' = "idle"
    /\ UNCHANGED <<clock, wire, nSent, enqLog, phrase_time, transcription,
                   cleared, finalized, lastGate, probe>>

(* transcribe_loop, lines 159-178: model.transcribe returned `segments`. *)
TranscribeReturn(segments) ==
    /\ pc = "transcribing"
    /\ LET text     == PhraseText(phrase_timestamp, segments)
           now      == clock
           complete == TimedOut(now, phrase_time)
       IN  /\ phrase_complete' = IF complete THEN "true" ELSE "false"
           /\ transcription' = Merge(transcription, text, complete)
           /\ batch_buffer' = BufferAfter(batch_buffer, complete)
           /\ cleared' = IF complete THEN drained ELSE cleared
           /\ finalized' = IF complete
                           THEN Append(finalized,
                                       [idx  |-> Len(transcription) + 1,
                                        text |-> text,
                                        ids  |-> Ids(batch_buffer)])
                           ELSE finalized
           /\ lastTick' = IF complete THEN "final" ELSE "update"
    /\ pc' = "sleep"
    /\ sleepLeft' = SLEEP_MS
    /\ UNCHANGED <<clock, wire, nSent, audio_queue, enqLog, phrase_time,
                   phrase_timestamp, drained, lastGate, probe>>

(* model.transcribe (or the move to "cuda", line 145) raised: nothing in    *)
(* transcribe_loop catches it, the task ends.                               *)
TranscribeRaise ==
    /\ pc = "transcribing"
    /\ pc' = "crashed"
    /\ lastTick' = "raise"
    /\ UNCHANGED <<clock, wire, nSent, audio_queue, enqLog, phrase_time,
                   sleepLeft, batch_buffer, transcription, phrase_timestamp,
                   phrase_complete, drained, cleared, finalized, lastGate, probe>>

(* Time passes.  Whatever the event loop can run now, it runs before time   *)
(* moves on: a message that has arrived is handled and a sleep that is over *)
(* resumes the task whenever the loop is free; the task's first run comes   *)
(* straight after its creation.  While model.transcribe runs, time passes   *)
(* freely.                                                                  *)
Advance ==
    /\ clock + ClockStep <= MaxClock
    /\ pc # "ready"
    /\ LoopIdle => wire = <<>>
    /\ pc = "sleep" => sleepLeft > 0
    /\ clock' = clock + ClockStep
    /\ sleepLeft' = IF sleepLeft > ClockStep THEN sleepLeft - ClockStep ELSE 0
    /\ UNCHANGED <<wire, nSent, audio_queue, enqLog, phrase_time, pc, batch_buffer,
                   transcription, phrase_timestamp,
                   phrase_complete, drained, cleared, finalized, lastTick, lastGate, probe>>

Next ==
    \/ \E p \in Payloads : Send(p)
    \/ HandleMessage
    \/ TickBegin
    \/ \E segments \in EngineResults : TranscribeReturn(segments)
    \/ TranscribeRaise
    \/ Advance

Spec == Init /\ [][Next]_vars

----------------------------------------------------------------------------
(* Helpers for the properties *)

\* the queue record (time, audio) under which handle_connection enqueued payload id
RecordOf(id) == enqLog[CHOOSE i \in 1..Len(enqLog) : enqLog[i].audio.id = id]

\* a message the gate lets through
Accepted(m) == m.bytes /\ is_speech(m, WHISPER_SAMPLE_RATE)

Last(seq) == seq[Len(seq)]

----------------------------------------------------------------------------
(* C1 *)

\* C1: at every recognition call (model.transcribe in flight) the phrase start
\* used to timestamp the segments, phrase_timestamp, is the capture time of the
\* first speech frame appended to the buffer since it was last cleared.
C1_PhraseStartIsFirstFrame ==
    pc = "transcribing" => phrase_timestamp = RecordOf(batch_buffer[1].id).time

----------------------------------------------------------------------------
(* C2 *)

\* C2: once a tick has finalized a line, no later tick changes that line: every
\* line a finalizing tick appended still has the text it was finalized with.
C2_FinalizedLineNeverChanges ==
    \A k \in 1..Len(finalized) :
        transcription[finalized[k].idx] = finalized[k].text

----------------------------------------------------------------------------
(* C3 *)

\* accepted frames i < j (positions in enqLog) belong to one spoken phrase:
\* the client sent each within the phrase timeout of the one before it
SamePhrase(i, j) ==
    \A k \in i..(j - 1) :
        enqLog[k + 1].audio.sent - enqLog[k].audio.sent <= PHRASE_TIMEOUT

\* C3: exactly one line is finalized per phrase: speech frames of one phrase (a
\* run of speech frames with no silence longer than the phrase timeout between
\* them) never end up in two different finalized lines.
C3_OneFinalizedLinePerPhrase ==
    \A i, j \in 1..Len(enqLog) :
        (i < j /\ SamePhrase(i, j)) =>
            ~ \E f, g \in 1..Len(finalized) :
                /\ f # g
                /\ enqLog[i].audio.id \in finalized[f].ids
                /\ enqLog[j].audio.id \in finalized[g].ids

----------------------------------------------------------------------------
(* C4 *)

\* C4: immediately after a finalizing tick the pending line (the last line of
\* the transcript) is a fresh, empty one.
C4_FreshPendingAfterFinalize ==
    lastTick = "final" => Last(transcription) = ""

----------------------------------------------------------------------------
(* C5 *)

\* C5: every step of transcribe_loop that does not mark the phrase complete
\* leaves the number of lines and every line but the last unchanged, and does
\* not clear the phrase buffer (it keeps what it held, in place).
C5_NonFinalTickOnlyUpdatesPending ==
    [][ \/ (pc = "transcribing" /\ phrase_complete' = "true")
        \/ /\ Len(transcription') = Len(transcription)
           /\ \A i \in 1..(Len(transcription) - 1) : transcription'[i] = transcription[i]
           /\ Len(batch_buffer') >= Len(batch_buffer)
           /\ SubSeq(batch_buffer', 1, Len(batch_buffer)) = batch_buffer ]_vars

\* a non-finalizing tick has just rewritten the pending line of a transcript
\* that already holds other lines, its buffer still in place
C5_Witness ==
    /\ lastTick = "update"
    /\ Len(transcription) >= 2
    /\ Last(transcription) # ""
    /\ batch_buffer # <<>>

----------------------------------------------------------------------------
(* C6 *)

\* C6: whenever a recognition call is in flight, handle_connection can still
\* take the next incoming message.
C6_IngestionNotBlocked ==
    (pc = "transcribing" /\ wire # <<>>) => ENABLED HandleMessage

----------------------------------------------------------------------------
(* C7 *)

\* C7: a recognition failure does not end the assembler: after it the loop is
\* asleep until its next tick, buffer and finalized lines kept.
C7_LoopSurvivesRecognitionFailure ==
    lastTick = "raise" => pc = "sleep"

----------------------------------------------------------------------------
(* C8 *)

\* sample rates the gate can be asked about (0 makes line 38 divide by zero)
SampleRates == {0, 8000, 16000, 32000, 48000}

\* C8: is_speech returns a boolean for every frame and sample rate, False when
\* the duration is not 10, 20 or 30 ms or the classifier raises; and handling a
\* frame that is not speech by these rules changes neither the queue, nor the
\* phrase buffer, nor phrase_time.
C8_GateNeverPropagates ==
    /\ \A p \in Payloads, r \in SampleRates :
          /\ is_speech(p, r) \in BOOLEAN
          /\ (~ValidDuration(p.len, r) \/ p.vad = "raise") => is_speech(p, r) = FALSE
    /\ [][ (wire # <<>> /\ wire' = Tail(wire)) =>
             LET m == Head(wire)
             IN  ( \/ ~ValidDuration(m.len, WHISPER_SAMPLE_RATE)
                   \/ m.vad # "speech" ) =>
                     UNCHANGED <<audio_queue, enqLog, batch_buffer, phrase_time>> ]_vars

\* handle_connection has just dropped a frame of invalid duration, or one on
\* which the classifier raised, after it had accepted an earlier frame
C8_Witness ==
    /\ lastGate \in {"bad duration", "classifier raised"}
    /\ Len(enqLog) = 1
    /\ phrase_time = enqLog[1].time
    /\ nSent = 2 /\ wire = <<>>

----------------------------------------------------------------------------
(* C9 *)

\* the gap of the scenario: shorter than the phrase timeout
BurstGap == 200

\* C9: two bursts less than the phrase timeout apart stay one open phrase: when
\* a tick finalizes a line and clears the buffer, no speech frame that the
\* client sent within BurstGap of the last frame of that buffer is still to come.
C9_ShortGapStaysOpen ==
    (lastTick = "final" /\ cleared = Len(enqLog)) =>
        \A i \in 1..Len(wire) :
            Accepted(wire[i]) =>
                wire[i].sent - Last(enqLog).audio.sent > BurstGap

----------------------------------------------------------------------------
(* C10 *)

\* C10: the phrase buffer is the payloads of exactly the frames drained since
\* the last clear, in the order handle_connection enqueued them, and the queue
\* holds the frames not yet drained, in that order.
C10_ArrivalOrderPreserved ==
    /\ batch_buffer = [i \in 1..(drained - cleared) |-> enqLog[cleared + i].audio]
    /\ audio_queue = [i \in 1..(Len(enqLog) - drained) |-> enqLog[drained + i]]

\* two frames enqueued at different times sit in the buffer
C10_Witness ==
    /\ Len(batch_buffer) = 2
    /\ RecordOf(batch_buffer[1].id).time < RecordOf(batch_buffer[2].id).time

----------------------------------------------------------------------------
(* The pure functions on their own: one call of one function on an argument *)
(* drawn from a bounded set, the pipeline left in its initial state.        *)

\* longest segment list the engine returns here
MaxSegs == 2

SegC == [start |-> 250, end |-> 1000, text |-> " c"]
SegPool == {SegA, SegB, SegC}

\* phrase starts, in ms
PhraseStarts == {0, 50, 1500, 59900, 3725123}

SeqsUpTo(S, n) == UNION {[1..k -> S] : k \in 0..n}

SegmentArgs ==
    {[phrase_timestamp |-> ts, segments |-> q] :
        ts \in PhraseStarts, q \in SeqsUpTo(SegPool, MaxSegs)}

Calls(fn, args) == {[fn |-> fn, arg |-> a, done |-> FALSE, out |-> <<>>] : a \in args}

Returned(fn) == probe.fn = fn /\ probe.done

\* process_time_segments(phrase_timestamp, segments) and the text made of it
ApplySegments ==
    /\ probe.fn = "process_time_segments" /\ ~probe.done
    /\ probe' = [probe EXCEPT
                   !.done = TRUE,
                   !.out = [r    |-> process_time_segments(probe.arg.phrase_timestamp,
                                                           probe.arg.segments),
                            text |-> PhraseText(probe.arg.phrase_timestamp,
                                                probe.arg.segments)]]
    /\ UNCHANGED pipeline

----------------------------------------------------------------------------
(* C11 *)

\* the first k strings of strs, in order, as one string
RECURSIVE CatUpTo(_, _)
CatUpTo(strs, k) == IF k = 0 THEN "" ELSE CatUpTo(strs, k - 1) \o strs[k]

\* C11: process_time_segments yields one entry per segment, in the engine's
\* order, stamped phrase_start + segment.start and phrase_start + segment.end,
\* and the phrase text is those entries concatenated in that order.
C11_SegmentMerging ==
    Returned("process_time_segments") =>
        LET ts   == probe.arg.phrase_timestamp
            segs == probe.arg.segments
            r    == probe.out.r
        IN  /\ Len(r.objs) = Len(segs) /\ Len(r.lines) = Len(segs)
            /\ \A i \in 1..Len(segs) :
                  /\ r.objs[i].text = segs[i].text
                  /\ r.objs[i].start = format_time(ts + segs[i].start)
                  /\ r.objs[i].end = format_time(ts + segs[i].end)
                  /\ r.lines[i] = "[" \o format_time(ts + segs[i].start) \o " - "
                                      \o format_time(ts + segs[i].end) \o "] "
                                      \o segs[i].text
            /\ probe.out.text = CatUpTo(r.lines, Len(segs))

\* two different segments merged for a phrase that starts after time 0
C11_Witness ==
    /\ Returned("process_time_segments")
    /\ probe.arg.phrase_timestamp = 3725123
    /\ probe.arg.segments = <<SegB, SegA>>
    /\ probe.out.text =
         "[01:02:05.223 - 01:02:05.373]  b[01:02:05.123 - 01:02:05.223]  a"

----------------------------------------------------------------------------
(* C14 *)

\* a step in which model.transcribe returns and the tick runs to its sleep
RecognitionStep == pc = "transcribing" /\ pc' = "sleep"

\* the lines before the last one
Settled(lines) == SubSeq(lines, 1, Len(lines) - 1)

\* C14: a tick with a non-empty buffer appends a line and clears the buffer
\* exactly when a speech frame has been seen and more than PHRASE_TIMEOUT has
\* passed since the last one when the timeout is evaluated; otherwise (at
\* PHRASE_TIMEOUT or less) it only rewrites the pending line and keeps the
\* buffer.
C14_TimeoutRule ==
    [][ RecognitionStep =>
          LET elapsed == clock - phrase_time
              fired   == phrase_time # None /\ elapsed > PHRASE_TIMEOUT
          IN  /\ batch_buffer # <<>>
              /\ fired <=> phrase_complete' = "true"
              /\ fired =>
                    /\ Len(transcription') = Len(transcription) + 1
                    /\ Settled(transcription') = transcription
                    /\ batch_buffer' = <<>>
              /\ ~fired =>
                    /\ Len(transcription') = Len(transcription)
                    /\ Settled(transcription') = Settled(transcription)
                    /\ batch_buffer' = batch_buffer ]_vars

\* a tick has evaluated the timeout exactly PHRASE_TIMEOUT after the last
\* speech frame and has only updated the pending line
C14_Witness ==
    /\ lastTick = "update"
    /\ pc = "sleep" /\ sleepLeft = SLEEP_MS
    /\ clock - phrase_time = PHRASE_TIMEOUT
    /\ batch_buffer # <<>>

----------------------------------------------------------------------------
(* C15 *)

\* a step in which transcribe_loop starts a tick: the task is due and the
\* step is not one of the client or of handle_connection
TickStep ==
    /\ pc = "ready" \/ (pc = "sleep" /\ sleepLeft = 0)
    /\ wire' = wire

\* a tick whose drain loop takes at least one record, hence reads the flag
DrainStep ==
    /\ TickStep
    /\ audio_queue # <<>>

\* C15 as stated: the flag read by a drain is bound, and is the value that the
\* same tick assigns, not one left by the previous tick.
C15_FlagReadIsAssignedInSameTick ==
    [][ DrainStep =>
          /\ phrase_complete # "unbound"
          /\ phrase_complete = phrase_complete' ]_vars

\* C15, amended: the flag read by a drain is always bound (the first drain
\* finds the queue empty and the tick then assigns it), and the value read is
\* the one the previous tick left: true exactly when the previous tick
\* finalized a line; the tick resets it only after the drain.
C15_FlagReadIsCarriedOver ==
    /\ [](pc = "ready" => audio_queue = <<>> /\ phrase_complete = "unbound")
    /\ [](lastTick # "unbound")
    /\ [][ DrainStep =>
             /\ phrase_complete # "unbound"
             /\ (phrase_complete = "true") <=> (lastTick = "final")
             /\ phrase_timestamp' # phrase_timestamp => phrase_complete = "true"
             /\ phrase_complete' = "false" ]_vars

\* a drain has read the flag left true by the previous tick: it has moved the
\* phrase start to the drained frame
C15_Witness ==
    /\ pc = "transcribing"
    /\ lastTick = "call"
    /\ finalized # <<>>
    /\ phrase_timestamp > 0

----------------------------------------------------------------------------
(* C16: the pipeline when the assembler keeps ticking, recognition returns   *)
(* and the client stops sending                                              *)

\* the client's last moment to send: the ticks that follow fit before MaxClock
LastSend == MaxClock - PHRASE_TIMEOUT - 2 * ClockStep

SendL(p) == clock <= LastSend /\ Send(p)

\* what the client has sent is handled before time moves past LastSend
AdvanceL == (clock >= LastSend => wire = <<>>) /\ Advance

NextL ==
    \/ \E p \in Payloads : SendL(p)
    \/ HandleMessage
    \/ TickBegin
    \/ \E segments \in EngineResults : TranscribeReturn(segments)
    \/ AdvanceL

\* the event loop runs whatever is ready, model.transcribe returns, time passes
SpecL ==
    /\ Init
    /\ [][NextL]_vars
    /\ WF_vars(HandleMessage)
    /\ WF_vars(TickBegin)
    /\ WF_vars(\E segments \in EngineResults : TranscribeReturn(segments))
    /\ WF_vars(AdvanceL)

Flushed(id) == \E k \in DOMAIN finalized : id \in finalized[k].ids

\* C16: once a frame is in the phrase buffer and the client stops sending,
\* the open phrase is eventually finalized as a transcript line that covers
\* the frame, and the buffer is eventually empty.
C16_FlushOnEndOfSpeech ==
    \A id \in 1..MaxMsgs :
        (id \in Ids(batch_buffer)) ~> (Flushed(id) /\ batch_buffer = <<>>)

\* the client has stopped, and the last tick has finalized all that was
\* accepted
C16_Witness ==
    /\ lastTick = "final"
    /\ batch_buffer = <<>> /\ audio_queue = <<>> /\ wire = <<>>
    /\ nSent = MaxMsgs
    /\ Len(enqLog) = MaxMsgs
    /\ \A id \in 1..MaxMsgs : Flushed(id)
    /\ Len(finalized) = 1

----------------------------------------------------------------------------
(* C18 *)

\* a tick starts with nothing to drain and nothing in the phrase buffer
EmptyTick ==
    /\ TickStep
    /\ audio_queue = <<>>
    /\ batch_buffer = <<>>

\* C18: a tick whose buffer is empty after the drain calls no recognition,
\* appends no line and leaves the transcript and the buffer as they were,
\* also when the last speech frame is older than the phrase timeout.
C18_EmptyTickIsNoOp ==
    [][ EmptyTick =>
          /\ pc' = "sleep"
          /\ lastTick' = "idle"
          /\ UNCHANGED <<transcription, batch_buffer, finalized, cleared,
                         phrase_timestamp, phrase_time>> ]_vars

\* an empty tick has just run with the last speech frame older than the
\* timeout
C18_Witness ==
    /\ lastTick = "idle"
    /\ pc = "sleep" /\ sleepLeft = SLEEP_MS
    /\ batch_buffer = <<>>
    /\ phrase_time # None
    /\ clock - phrase_time > PHRASE_TIMEOUT

----------------------------------------------------------------------------
(* C19 *)

\* the fair pipeline of C16, with a recognition that may also raise
NextLR ==
    \/ NextL
    \/ TranscribeRaise

SpecLR ==
    /\ Init
    /\ [][NextLR]_vars
    /\ WF_vars(HandleMessage)
    /\ WF_vars(TickBegin)
    /\ WF_vars(\E segments \in EngineResults : TranscribeReturn(segments))
    /\ WF_vars(AdvanceL)

Enqueued(id) == \E i \in DOMAIN enqLog : enqLog[i].audio.id = id

\* the buffer of the recognition call under way holds frame id
Submitted(id) == pc = "transcribing" /\ id \in Ids(batch_buffer)

\* C19: every frame enqueued by handle_connection is in the buffer of at
\* least one recognition call.
C19_EveryFrameRecognized ==
    \A id \in 1..MaxMsgs : [](~Enqueued(id)) \/ <>Submitted(id)

\* The part of C19 about the phrase boundary: while recognition runs, the
\* queue stays drained and nothing is enqueued or appended, so the buffer a
\* finalizing tick clears is the buffer it submitted.
C19_NoAudioLostAtBoundary ==
    /\ [](pc = "transcribing" =>
            /\ audio_queue = <<>>
            /\ batch_buffer # <<>>
            /\ drained = Len(enqLog)
            /\ \A i \in cleared + 1 .. drained : enqLog[i].audio.id \in Ids(batch_buffer))
    /\ [][ pc = "transcribing" =>
             /\ enqLog' = enqLog
             /\ audio_queue' = <<>>
             /\ batch_buffer' \in {batch_buffer, <<>>}
             /\ batch_buffer' = <<>> =>
                   /\ Len(finalized') = Len(finalized) + 1
                   /\ Last(finalized').ids = Ids(batch_buffer) ]_vars

\* a tick has finalized and cleared all that was enqueued while another
\* speech frame, sent during the recognition, is still waiting to be handled
C19_Witness ==
    /\ lastTick = "final"
    /\ pc = "sleep" /\ sleepLeft = SLEEP_MS
    /\ cleared = Len(enqLog) /\ cleared > 0
    /\ wire # <<>> /\ Accepted(Head(wire))

----------------------------------------------------------------------------
(* C12 *)

\* durations, given by their hours, minutes, seconds and milliseconds
FormatHours == {0, 1, 9, 10, 23, 24, 25, 99, 100}
FormatMinutes == {0, 2, 59}
FormatSeconds == {0, 5, 59}
FormatMillis == {0, 7, 45, 123, 999}

DurationArgs ==
    {[h |-> h, m |-> m, s |-> s, f |-> f] :
        h \in FormatHours, m \in FormatMinutes, s \in FormatSeconds, f \in FormatMillis}

\* the duration in ms
Millis(d) == ((d.h * 60 + d.m) * 60 + d.s) * 1000 + d.f

\* format_time(delta_seconds)
ApplyFormatTime ==
    /\ probe.fn = "format_time" /\ ~probe.done
    /\ probe' = [probe EXCEPT !.done = TRUE, !.out = format_time(Millis(probe.arg))]
    /\ UNCHANGED pipeline

Digit(d) == <<"0", "1", "2", "3", "4", "5", "6", "7", "8", "9">>[d + 1]

\* n in decimal
RECURSIVE Decimal(_)
Decimal(n) == IF n < 10 THEN Digit(n) ELSE Decimal(n \div 10) \o Digit(n % 10)

\* n in decimal, with zeros in front up to `width` digits
RECURSIVE ZeroPadded(_, _)
ZeroPadded(n, width) ==
    IF width <= 1 THEN Decimal(n)
    ELSE IF n < 10 THEN "0" \o ZeroPadded(n, width - 1)
    ELSE ZeroPadded(n \div 10, width - 1) \o Digit(n % 10)

\* C12: a duration of h hours, m < 60 minutes, s < 60 seconds and f < 1000 ms
\* formats as HH:MM:SS.mmm, the hours not wrapped at 24 and at least two
\* digits wide; 3725.123 seconds is 01:02:05.123.
C12_FormatTime ==
    /\ format_time(3725123) = "01:02:05.123"
    /\ Returned("format_time") =>
          probe.out = ZeroPadded(probe.arg.h, 2) \o ":" \o ZeroPadded(probe.arg.m, 2)
                          \o ":" \o ZeroPadded(probe.arg.s, 2)
                          \o "." \o ZeroPadded(probe.arg.f, 3)

\* a duration of more than a day formatted with its hours unwrapped
C12_Witness ==
    /\ Returned("format_time")
    /\ probe.arg = [h |-> 25, m |-> 2, s |-> 5, f |-> 7]
    /\ probe.out = "25:02:05.007"

----------------------------------------------------------------------------
(* C13, C17: preprocess_audio, lines 66-73 *)

\* librosa.util.fix_length with the window shortened only, never cut
fix_length_PadOnly(n, size) ==
    [data |-> n, zeros |-> IF n < size THEN size - n ELSE 0]

\* librosa.util.fix_length(samples, size=...), line 72, on n samples: the
\* result holds the first `data` samples followed by `zeros` zero samples
fix_length(n, size) ==
    IF n > size THEN [data |-> size, zeros |-> 0]
    ELSE [data |-> n, zeros |-> size - n]

\* lines 66-73 on a buffer of raw_bytes bytes; np.frombuffer(dtype=np.int16)
\* takes two bytes per sample and raises on an odd length
preprocess_audio(raw_bytes) ==
    LET target_length == WHISPER_SAMPLE_RATE * 30
        samples == fix_length(raw_bytes \div 2, target_length)
    IN  IF raw_bytes % 2 # 0
        THEN [raised |-> TRUE, data |-> 0, zeros |-> 0]
        ELSE [raised |-> FALSE, data |-> samples.data, zeros |-> samples.zeros]

\* the payload lengths the gate lets through at WHISPER_SAMPLE_RATE
FrameBytes == {len \in 1..1000 : ValidDuration(len, WHISPER_SAMPLE_RATE)}

\* batch_buffer is a concatenation of accepted payloads (line 136)
ReachableBuffer(raw_bytes) ==
    /\ raw_bytes > 0
    /\ \E unit \in FrameBytes :
          /\ \A len \in FrameBytes : len % unit = 0
          /\ raw_bytes % unit = 0

\* buffer lengths in bytes, around the 30 s window of 960000 bytes
BufferBytes == {160, 161, 320, 480, 640, 959840, 960000, 960160, 960320, 1920000}

\* preprocess_audio(batch_buffer)
ApplyPreprocess ==
    /\ probe.fn = "preprocess_audio" /\ ~probe.done
    /\ probe' = [probe EXCEPT !.done = TRUE, !.out = preprocess_audio(probe.arg)]
    /\ UNCHANGED pipeline

\* C13: for every buffer the pipeline can build, preprocess_audio returns a
\* window of exactly WHISPER_SAMPLE_RATE * 30 samples: a shorter buffer is
\* followed by zeros, a longer one is cut to its first WHISPER_SAMPLE_RATE * 30
\* samples.
C13_WindowLength ==
    (Returned("preprocess_audio") /\ ReachableBuffer(probe.arg)) =>
        LET n      == probe.arg \div 2
            target == WHISPER_SAMPLE_RATE * 30
        IN  /\ ~probe.out.raised
            /\ probe.out.data + probe.out.zeros = target
            /\ n <= target => probe.out.data = n
            /\ n > target => probe.out.data = target /\ probe.out.zeros = 0

\* a buffer of 30.005 s has been cut to the window
C13_Witness ==
    /\ Returned("preprocess_audio")
    /\ probe.arg = 960160
    /\ probe.out = [raised |-> FALSE, data |-> 480000, zeros |-> 0]

\* C17: the window submitted to the engine holds every sample of the phrase
\* buffer, whatever the length of the buffer.
C17_WindowHoldsWholePhrase ==
    (Returned("preprocess_audio") /\ ReachableBuffer(probe.arg)) =>
        probe.out.data = probe.arg \div 2

----------------------------------------------------------------------------
(* C20 *)

\* whether lines 36-42 reach vad.is_speech(chunk, sample_rate)
ClassifierCalled(chunk, sample_rate) ==
    sample_rate # 0 /\ ValidDuration(chunk.len, sample_rate)

GateLens == {0, 159, 160, 320, 480, 640, 960}
GateRates == {8000, 16000}

GateArgs ==
    {[chunk |-> [bytes |-> TRUE, len |-> len, vad |-> v], sample_rate |-> r] :
        len \in GateLens, v \in VadOutcomes, r \in GateRates}

\* is_speech(chunk, sample_rate)
ApplyIsSpeech ==
    /\ probe.fn = "is_speech" /\ ~probe.done
    /\ probe' = [probe EXCEPT
           !.done = TRUE,
           !.out = [value  |-> is_speech(probe.arg.chunk, probe.arg.sample_rate),
                    called |-> ClassifierCalled(probe.arg.chunk, probe.arg.sample_rate)]]
    /\ UNCHANGED pipeline

\* len bytes are 10, 20 or 30 ms of 16-bit mono PCM at sample_rate
PcmFrame(len, sample_rate) ==
    \E d \in {10, 20, 30} : len * 1000 = 2 * d * sample_rate

\* C20: the classifier is called, and the frame admitted, only for a payload
\* of exactly 10, 20 or 30 ms of 16-bit mono PCM at the sample rate; any other
\* length is rejected by the duration check.
C20_DurationCheckAdmitsPcmFrames ==
    Returned("is_speech") =>
        /\ probe.out.called => PcmFrame(probe.arg.chunk.len, probe.arg.sample_rate)
        /\ probe.out.value => PcmFrame(probe.arg.chunk.len, probe.arg.sample_rate)

----------------------------------------------------------------------------

InitFn ==
    /\ PipelineInit
    /\ probe \in Calls("process_time_segments", SegmentArgs)
                   \cup Calls("format_time", DurationArgs)
                   \cup Calls("preprocess_audio", BufferBytes)
                   \cup Calls("is_speech", GateArgs)

NextFn ==
    \/ ApplySegments
    \/ ApplyFormatTime
    \/ ApplyPreprocess
    \/ ApplyIsSpeech

SpecFn == InitFn /\ [][NextFn]_vars

====
